---- MODULE Spec2Model ----
(***************************************************************************)
(* The RAPPOR client encoder of client/cpp/encoder.cc: construction and    *)
(* validation of an Encoder, and Encode / _EncodeInternal with the three   *)
(* stages MakeBloomFilter, GetPrrMasks (PRR) and the IRR mask draws.       *)
(*                                                                         *)
(* A Bits value is modelled as the set of its set bit positions, a subset  *)
(* of 0..BitsWidth-1; BitsValue gives the unsigned integer it stands for.  *)
(* A byte string is a sequence of numbers in 0..255.                       *)
(***************************************************************************)
EXTENDS Integers, Sequences, FiniteSets, TLC

\* ------------------------------------------------------------ constants

\* sizeof(Bits) * 8.  The typedef of Bits is in a header; the design text
\* gives a 64-bit vector.
BitsWidth == 64

\* static int kMaxBits = sizeof(Bits) * 8;
kMaxBits == BitsWidth

\* sizeof(Md5Digest) and sizeof(Sha256Digest): the digest arrays.
Md5DigestLen == 16
Sha256DigestLen == 32

\* The width of int: the type of the literal 1 in  1 << bit_to_set  and of the
\* promoted uint8_t in  u_bit << i.
IntBits == 32

\* ---------------------------------------------------------------- bounds

\* Longest value string encoded.
MaxValueLen == 1

\* ------------------------------------------------------- input domains

\* The bytes a value is made of ("x").
ValueBytes == {120}

Values == UNION {[1..n -> ValueBytes] : n \in 0..MaxValueLen}

\* Params.num_bits: negative, zero, not byte aligned, aligned and small, the
\* int width, above the PRR limit, above the capacity.
NumBitsSet == {-8, 0, 4, 8, 32, 40, 72}

\* Params.num_hashes: none, two probes, one more than the MD5 has bytes.
NumHashesSet == {0, 2, 17}

\* Params.prob_f as a fraction <<numerator, denominator>> in [0, 1].
ProbFSet == {<<0, 1>>, <<1, 200>>, <<1, 2>>, <<1, 1>>}

\* Cohorts: one that fits a byte and one that does not.
CohortSet == {0, 257}

\* Client secrets.
SecretSet == {<<>>, <<2>>}

\* What a read past the end of the MD5 array can find on the stack.
GarbageBytes == {6, 9}

\* --------------------------------------------------------------- helpers

RECURSIVE Sum(_)
Sum(s) == IF s = <<>> THEN 0 ELSE Head(s) + Sum(Tail(s))

RECURSIVE Pow2(_)
Pow2(n) == IF n = 0 THEN 1 ELSE 2 * Pow2(n - 1)

Abs(a) == IF a < 0 THEN -a ELSE a

\* The C++ operator % on ints (b # 0): the quotient truncates towards zero,
\* so the remainder has the sign of the dividend.
CRem(a, b) ==
    LET q == IF (a >= 0) = (b > 0) THEN Abs(a) \div Abs(b)
             ELSE -(Abs(a) \div Abs(b))
    IN  a - q * b

Pad(s, n) == [i \in 1..n |-> IF i <= Len(s) THEN s[i] ELSE 0]

AllBits == 0..(BitsWidth - 1)

\* The unsigned integer a Bits value stands for.
RECURSIVE BitsValue(_)
BitsValue(b) ==
    IF b = {} THEN 0
    ELSE LET i == CHOOSE x \in b : TRUE IN Pow2(i) + BitsValue(b \ {i})

\* The Bits value with the low n bits set (none for n <= 0).
LowOnes(n) == {i \in AllBits : i < n}

\* ------------------------------------------------- injected dependencies

\* The deterministic digest stub standing for md5_func: a table of 16-byte
\* digests, indexed by the whole hash input.
Md5Table ==
    << Pad(<<3, 5>>, Md5DigestLen),
       Pad(<<31, 31>>, Md5DigestLen),
       [i \in 1..Md5DigestLen |-> (17 * i + 6) % 256],
       [i \in 1..Md5DigestLen |-> 255],
       Pad(<<35, 255>>, Md5DigestLen) >>

Md5Stub(input) ==
    Md5Table[((Sum(input) + Len(input)) % Len(Md5Table)) + 1]

\* The keyed digest stub standing for hmac_func: 32-byte digests, indexed by
\* the key and the message.
Sha256Table ==
    << [i \in 1..Sha256DigestLen |-> 0],
       [i \in 1..Sha256DigestLen |-> 255],
       [i \in 1..Sha256DigestLen |-> IF i % 2 = 1 THEN 128 ELSE 127],
       [i \in 1..Sha256DigestLen |-> (37 * i + 1) % 256] >>

HmacStub(key, message) ==
    Sha256Table[((Sum(key) + Sum(message) + Len(message)) % Len(Sha256Table)) + 1]

\* What irr_rand_.PMask and QMask can answer for an encoder of n bits:
\* failure, or success with a mask.
MaskFailure == [ok |-> FALSE, bits |-> {}]

PMaskResults(n) == {MaskFailure} \cup {[ok |-> TRUE, bits |-> b] : b \in {LowOnes(n), {0, 3}}}

QMaskResults(n) == {MaskFailure} \cup {[ok |-> TRUE, bits |-> b] : b \in {{}, {0, 3}}}

\* ---------------------------------------------------------------- state

VARIABLES
    ctor,            \* which constructor built the encoder: "full" or "deps"
    num_bits_, num_hashes_, prob_f_, cohort_, client_secret_,
    is_valid_,
    divZeroTraps,    \* the build: x % 0 raises SIGFPE, or leaves the dividend
    shiftWraps,      \* the build: x << n with n >= 32 shifts by n % 32, or gives 0
    status,          \* "idle", "returned", or "crashed" (process terminated)
    fault,           \* "none", "div_by_zero", "assert"
    arg_value,       \* the value of the last call
    ret_ok,          \* what the last call returned
    written,         \* which of *bloom_out, *prr_out, *irr_out the call assigned
    bloom_out, prr_out, irr_out,
    uniform, f_mask, \* the locals GetPrrMasks filled in
    draws,           \* the mask draws of the call, in order
    p_bits, q_bits,  \* the masks drawn
    md5_reads,       \* how many bytes md5[0], md5[1], ... the call read
    sha_reads,       \* how many bytes sha256[0], ... the call read
    first            \* what the first completed call gave for its value

params == <<ctor, num_bits_, num_hashes_, prob_f_, cohort_, client_secret_,
            is_valid_, divZeroTraps, shiftWraps>>

call == <<status, fault, arg_value, ret_ok, written, bloom_out, prr_out,
          irr_out, uniform, f_mask, draws, p_bits, q_bits, md5_reads, sha_reads>>

vars == <<params, call, first>>

\* ------------------------------------------------------------- shifting

\* The int  bit << n  for bit in {0, 1}, as the set of set bits of its 32-bit
\* two's complement pattern.  n >= 32 is undefined: the build decides.
ShiftLeftInt(bit, n) ==
    IF bit = 0 THEN {}
    ELSE IF n < IntBits THEN {n}
    ELSE IF shiftWraps THEN {n % IntBits}
    ELSE {}

\* The conversion of an int to Bits in  bits |= <int> : an int with the
\* sign bit set is negative and sign-extends to the width of Bits.
IntToBits(s) ==
    IF (IntBits - 1) \in s THEN s \cup {i \in AllBits : i >= IntBits} ELSE s

\* ------------------------------------------------------- MakeBloomFilter

\* hash_input: [0 0 0 <cohort & 0xFF>] followed by the value.
HashInput(value) == <<0, 0, 0, cohort_ % 256>> \o value

\* The loop over the probes.  mem is the MD5 followed by the bytes found
\* behind it.  Gives the bloom, how many bytes were read and the fault that
\* ended the loop.
RECURSIVE BloomLoop(_, _, _)
BloomLoop(i, bloom, mem) ==
    IF i >= num_hashes_ THEN [bloom |-> bloom, reads |-> i, fault |-> "none"]
    ELSE IF num_bits_ = 0 /\ divZeroTraps
         THEN [bloom |-> bloom, reads |-> i + 1, fault |-> "div_by_zero"]
    ELSE LET bit_to_set == IF num_bits_ = 0 THEN mem[i + 1]
                           ELSE CRem(mem[i + 1], num_bits_)
         IN  BloomLoop(i + 1, bloom \cup IntToBits(ShiftLeftInt(1, bit_to_set)), mem)

\* stack: the bytes behind the md5 array that the loop reads when
\* num_hashes_ exceeds the length of the digest.
MakeBloomFilter(value, stack) ==
    BloomLoop(0, {}, Md5Stub(HashInput(value)) \o stack)

\* How many bytes behind the md5 array a call reads.
OobCount == IF num_hashes_ > Md5DigestLen THEN num_hashes_ - Md5DigestLen ELSE 0

\* ----------------------------------------------------------- GetPrrMasks

\* A threshold scaled to 256, which no longer fits the uint8_t for prob_f = 1.
Threshold128_Scaled256 == ((prob_f_[1] * 256) \div prob_f_[2]) % 256

\* static_cast<uint8_t>(prob_f_ * 128)
Threshold128 == (prob_f_[1] * 128) \div prob_f_[2]

\* The comparison made inclusive: rand128 <= threshold128.
NoiseBit_Inclusive(byte) == IF (byte \div 2) <= Threshold128 THEN 1 ELSE 0

\* uint8_t rand128 = byte >> 1;  uint8_t noise_bit = (rand128 < threshold128);
NoiseBit(byte) == IF (byte \div 2) < Threshold128 THEN 1 ELSE 0

\* assert(num_bits_ <= 32) is compiled in: a failed assertion aborts.
GetPrrMasks(value) ==
    LET sha256 == HmacStub(client_secret_, value) IN
    IF ~(num_bits_ <= 32)
    THEN [fault |-> "assert", uniform |-> {}, f_mask |-> {}, reads |-> 0]
    ELSE [fault |-> "none",
          uniform |-> UNION {IntToBits(ShiftLeftInt(sha256[i + 1] % 2, i)) :
                               i \in 0..(num_bits_ - 1)},
          f_mask |-> UNION {IntToBits(ShiftLeftInt(NoiseBit(sha256[i + 1]), i)) :
                              i \in 0..(num_bits_ - 1)},
          reads |-> IF num_bits_ > 0 THEN num_bits_ ELSE 0]

\* ------------------------------------------------------- _EncodeInternal

BitNot(b) == AllBits \ b

\* Bits prr = (bloom & ~f_mask) | (uniform & f_mask);
Prr(bloom, u, f) == (bloom \cap BitNot(f)) \cup (u \cap f)

\* The two masks taken the wrong way round.
Irr_Swapped(prr, p, q) == (q \cap BitNot(prr)) \cup (p \cap prr)

\* Bits irr = (p_bits & ~prr) | (q_bits & prr);
Irr(prr, p, q) == (p \cap BitNot(prr)) \cup (q \cap prr)

PDraw(res) == [mask |-> "P", ok |-> res.ok]
QDraw(res) == [mask |-> "Q", ok |-> res.ok]

\* An IRR stage that goes on after a failed draw with the mask left at 0.
IrrStage_NoEarlyReturn(prr, pRes, qRes) ==
    [ok |-> pRes.ok /\ qRes.ok, draws |-> <<PDraw(pRes), QDraw(qRes)>>,
     p |-> pRes.bits, q |-> qRes.bits, irr_written |-> TRUE,
     irr |-> Irr(prr, pRes.bits, qRes.bits)]

\* The IRR stage: PMask, then QMask, each ending the call when it fails.
\* pRes and qRes are what irr_rand_ answers when it is asked.
IrrStage(prr, pRes, qRes) ==
    IF ~pRes.ok
    THEN [ok |-> FALSE, draws |-> <<PDraw(pRes)>>, p |-> {}, q |-> {},
          irr_written |-> FALSE, irr |-> {}]
    ELSE IF ~qRes.ok
    THEN [ok |-> FALSE, draws |-> <<PDraw(pRes), QDraw(qRes)>>, p |-> pRes.bits,
          q |-> {}, irr_written |-> FALSE, irr |-> {}]
    ELSE [ok |-> TRUE, draws |-> <<PDraw(pRes), QDraw(qRes)>>, p |-> pRes.bits,
          q |-> qRes.bits, irr_written |-> TRUE,
          irr |-> Irr(prr, pRes.bits, qRes.bits)]

NoResult == [set |-> FALSE, value |-> <<>>, bloom |-> {}, uniform |-> {},
             f_mask |-> {}, prr |-> {}]

\* One call of _EncodeInternal, to its return or to the fault that
\* terminates the process.  stack is what lies behind the md5 array; pRes
\* and qRes are what irr_rand_ answers when it is asked (QMask is asked only
\* after PMask succeeded).
_EncodeInternal(value, stack) ==
    \E bl \in {MakeBloomFilter(value, stack)}, pm \in {GetPrrMasks(value)} :
    \E prr \in {Prr(bl.bloom, pm.uniform, pm.f_mask)} :
    \E pRes \in PMaskResults(num_bits_) :
    \E qRes \in (IF pRes.ok THEN QMaskResults(num_bits_) ELSE {MaskFailure}) :
    \E ir \in {IrrStage(prr, pRes, qRes)} :
    LET crashedInBloom == bl.fault # "none"
        crashedInPrr   == ~crashedInBloom /\ pm.fault # "none"
        done           == ~crashedInBloom /\ ~crashedInPrr
    IN  /\ status # "crashed"
        /\ arg_value' = value
        /\ md5_reads' = bl.reads
        /\ fault' = IF crashedInBloom THEN bl.fault
                    ELSE IF crashedInPrr THEN pm.fault ELSE "none"
        /\ status' = IF done THEN "returned" ELSE "crashed"
        /\ bloom_out' = IF crashedInBloom THEN {} ELSE bl.bloom
        /\ sha_reads' = IF done THEN pm.reads ELSE 0
        /\ uniform' = IF done THEN pm.uniform ELSE {}
        /\ f_mask' = IF done THEN pm.f_mask ELSE {}
        /\ prr_out' = IF done THEN prr ELSE {}
        /\ draws' = IF done THEN ir.draws ELSE <<>>
        /\ p_bits' = IF done THEN ir.p ELSE {}
        /\ q_bits' = IF done THEN ir.q ELSE {}
        /\ ret_ok' = (done /\ ir.ok)
        /\ irr_out' = IF done /\ ir.irr_written THEN ir.irr ELSE {}
        /\ written' = (IF crashedInBloom THEN {} ELSE {"bloom"})
                        \cup (IF done THEN {"prr"} ELSE {})
                        \cup (IF done /\ ir.irr_written THEN {"irr"} ELSE {})
        /\ first' = IF done /\ ~first.set
                    THEN [set |-> TRUE, value |-> value, bloom |-> bl.bloom,
                          uniform |-> pm.uniform, f_mask |-> pm.f_mask, prr |-> prr]
                    ELSE first
        /\ UNCHANGED params

\* ------------------------------------------------------------ operations

\* The validity the first constructor computes.
CheckedValid(nb) == ~(nb > kMaxBits) /\ CRem(nb, 8) = 0

\* The state after construction.  The Params + Deps constructor assigns
\* neither is_valid_ nor num_bytes_: the flag holds whatever the memory held.
\* The build's answer to a division by zero or an oversized shift is fixed
\* for the process; it is left at TRUE for the encoders that can reach neither.
Init ==
    /\ ctor \in {"full", "deps"}
    /\ num_bits_ \in NumBitsSet
    /\ num_hashes_ \in NumHashesSet
    /\ prob_f_ \in ProbFSet
    /\ cohort_ \in CohortSet
    /\ client_secret_ \in SecretSet
    /\ is_valid_ \in (IF ctor = "full" THEN {CheckedValid(num_bits_)} ELSE BOOLEAN)
    /\ divZeroTraps \in (IF num_bits_ = 0 THEN BOOLEAN ELSE {TRUE})
    /\ shiftWraps \in (IF num_bits_ = 0 \/ num_bits_ > IntBits THEN BOOLEAN ELSE {TRUE})
    /\ status = "idle"
    /\ fault = "none"
    /\ arg_value = <<>>
    /\ ret_ok = FALSE
    /\ written = {}
    /\ bloom_out = {} /\ prr_out = {} /\ irr_out = {}
    /\ uniform = {} /\ f_mask = {}
    /\ draws = <<>>
    /\ p_bits = {} /\ q_bits = {}
    /\ md5_reads = 0 /\ sha_reads = 0
    /\ first = NoResult

\* bool IsValid() const: returns is_valid_ and changes nothing.
IsValidResult == is_valid_

IsValid ==
    /\ status # "crashed"
    /\ IsValidResult \in BOOLEAN
    /\ UNCHANGED vars

\* bool Encode(value, irr_out): the whole of _EncodeInternal, with bloom
\* and prr going to locals of Encode.
Encode ==
    \E value \in Values, stack \in [1..OobCount -> GarbageBytes] :
        _EncodeInternal(value, stack)

Next == IsValid \/ Encode

Spec == Init /\ [][Next]_vars

\* ---------------------------------------------------------------- claims

\* The digests the last call was given.
LastMd5 == Md5Stub(<<0, 0, 0, cohort_ % 256>> \o arg_value)
LastSha256 == HmacStub(client_secret_, arg_value)

\* floor(prob_f * 128)
FloorProbF128 == (prob_f_[1] * 128) \div prob_f_[2]

\* C1: IsValid() is false whenever num_bits exceeds the capacity or is not a
\* multiple of 8, and true whenever it is a multiple of 8 within the
\* capacity, whichever constructor built the encoder.
C1_IsValidReflectsNumBits ==
    IsValidResult = (num_bits_ <= BitsWidth /\ num_bits_ % 8 = 0)

\* C2: on a valid encoder the deterministic stages never fail: the assertion
\* num_bits <= 32 holds and no Bloom probe is taken modulo zero.
C2_DeterministicStagesNeverFail ==
    is_valid_ => /\ fault = "none"
                 /\ ~(md5_reads > 0 /\ num_bits_ = 0)

\* C3: a call returns false if and only if a mask draw failed and true exactly
\* when PMask and QMask both succeeded; PMask is drawn first, each mask at
\* most once, no QMask after a failed PMask, and no IRR is written on failure.
C3_EncodeFailsIffMaskDrawFails ==
    status = "returned" =>
        /\ Len(draws) \in {1, 2}
        /\ draws[1].mask = "P"
        /\ Len(draws) = 2 => draws[2].mask = "Q"
        /\ ~draws[1].ok => Len(draws) = 1
        /\ ret_ok = (\A k \in 1..Len(draws) : draws[k].ok)
        /\ ret_ok = (Len(draws) = 2 /\ draws[1].ok /\ draws[2].ok)
        /\ ~ret_ok => "irr" \notin written

\* A call on a valid encoder that failed at PMask.
C3_Witness ==
    /\ is_valid_
    /\ status = "returned"
    /\ draws = <<[mask |-> "P", ok |-> FALSE]>>
    /\ ~ret_ok

\* C4: on a valid encoder no produced vector has a bit at a position
\* >= num_bits: not the Bloom filter, uniform, f_mask or the PRR, and not the
\* IRR when the masks drawn have none.
C4_NoBitAtOrAboveNumBits ==
    is_valid_ =>
        /\ "bloom" \in written => bloom_out \subseteq LowOnes(num_bits_)
        /\ "prr" \in written =>
              /\ uniform \subseteq LowOnes(num_bits_)
              /\ f_mask \subseteq LowOnes(num_bits_)
              /\ prr_out \subseteq LowOnes(num_bits_)
        /\ ("irr" \in written /\ p_bits \subseteq LowOnes(num_bits_)
                              /\ q_bits \subseteq LowOnes(num_bits_))
              => irr_out \subseteq LowOnes(num_bits_)

\* C5: two calls with the same value produce the same Bloom filter, the same
\* (uniform, f_mask) and the same PRR, whatever was encoded and drawn in
\* between: every call agrees with the first completed call on its value.
C5_SameValueSameBloomAndPrr ==
    (first.set /\ "prr" \in written /\ arg_value = first.value) =>
        /\ bloom_out = first.bloom
        /\ uniform = first.uniform
        /\ f_mask = first.f_mask
        /\ prr_out = first.prr

\* C6: the Bloom filter has bit b set if and only if some probe
\* i in [0, num_hashes) has digest_byte[i] mod num_bits = b, for the digest of
\* [0, 0, 0, cohort] followed by the value.  (mod is read as the code's %;
\* nothing is a residue modulo zero.)
C6_BloomIsExactlyTheProbes ==
    "bloom" \in written =>
        bloom_out = {b \in AllBits :
                        \E i \in 0..(num_hashes_ - 1) :
                            /\ i < Len(LastMd5)
                            /\ num_bits_ # 0
                            /\ CRem(LastMd5[i + 1], num_bits_) = b}

\* C7: for every position i in [0, num_bits) the PRR bit is the low bit of
\* keyed-digest byte i where the upper 7 bits of the byte are below
\* floor(prob_f * 128), which is where the f_mask bit is set, and the Bloom
\* bit elsewhere; PRR = (bloom & ~f_mask) | (uniform & f_mask).
C7_PrrIsBloomOutsideMaskUniformInside ==
    "prr" \in written =>
        /\ \A i \in 0..(num_bits_ - 1) :
              LET byte == LastSha256[i + 1]
                  noised == (byte \div 2) < FloorProbF128
              IN  /\ (i \in f_mask) = noised
                  /\ (i \in uniform) = (byte % 2 = 1)
                  /\ (i \in prr_out) = IF noised THEN byte % 2 = 1 ELSE i \in bloom_out
        /\ prr_out = (bloom_out \ f_mask) \cup (uniform \cap f_mask)

\* A PRR with a bit taken from the coin toss and a bit passed through from
\* the Bloom filter.
C7_Witness ==
    /\ is_valid_
    /\ "prr" \in written
    /\ \E i \in 0..(num_bits_ - 1) : i \in f_mask /\ i \in prr_out /\ i \notin bloom_out
    /\ \E j \in 0..(num_bits_ - 1) : j \notin f_mask /\ j \in prr_out
    /\ \E k \in 0..(num_bits_ - 1) : k \in f_mask /\ k \notin prr_out /\ k \in bloom_out

\* C8: with prob_f = 0 the f_mask is 0 and the PRR is the Bloom filter; with
\* prob_f = 1 all low num_bits bits of f_mask are set and every PRR bit is
\* the uniform bit.
C8_PrrAtExtremesOfProbF ==
    "prr" \in written =>
        /\ prob_f_[1] = 0 => (f_mask = {} /\ prr_out = bloom_out)
        /\ prob_f_[1] = prob_f_[2] =>
              /\ LowOnes(num_bits_) \subseteq f_mask
              /\ \A i \in 0..(num_bits_ - 1) :
                    (i \in prr_out) = (LastSha256[i + 1] % 2 = 1)

\* prob_f = 1 on a valid encoder whose coin tosses replace set Bloom bits.
C8_Witness ==
    /\ is_valid_
    /\ "prr" \in written
    /\ prob_f_[1] = prob_f_[2]
    /\ num_bits_ > 0
    /\ bloom_out # {}
    /\ prr_out # bloom_out

\* C9: when the call succeeds every IRR bit is the PMask bit where the PRR bit
\* is 0 and the QMask bit where it is 1; with PMask all ones over num_bits
\* bits and QMask 0 the IRR is the complement of the PRR in the low num_bits
\* bits.
C9_IrrSelectsPOrQByPrr ==
    (status = "returned" /\ ret_ok) =>
        /\ "irr" \in written
        /\ \A i \in AllBits :
              (i \in irr_out) = IF i \in prr_out THEN i \in q_bits ELSE i \in p_bits
        /\ (p_bits = LowOnes(num_bits_) /\ q_bits = {})
              => irr_out = LowOnes(num_bits_) \ prr_out

\* PRR 0b00101000 over 8 bits with PMask 0xFF and QMask 0x00 gives
\* IRR 0b11010111.
C9_Witness ==
    /\ is_valid_
    /\ status = "returned" /\ ret_ok
    /\ num_bits_ = 8
    /\ prr_out = {3, 5}
    /\ BitsValue(prr_out) = 40
    /\ BitsValue(p_bits) = 255
    /\ q_bits = {}
    /\ BitsValue(irr_out) = 215

\* C10: on a valid encoder every digest byte read lies inside its digest:
\* MakeBloomFilter reads only below the 16 bytes of the deterministic digest,
\* GetPrrMasks only below the 32 bytes of the keyed digest.
C10_DigestReadsInBounds ==
    is_valid_ =>
        /\ md5_reads <= Md5DigestLen
        /\ sha_reads <= Sha256DigestLen

====
